---- MODULE Spec2Model ----
(***************************************************************************)
(* Model of the DataFrame core of src/code.py: add_category_column and     *)
(* filter_by_min_value, together with the pandas operations they call      *)
(* (copy, fillna, cut, column assignment, .loc assignment, drop, boolean   *)
(* row selection).                                                         *)
(*                                                                         *)
(* DataFrames are objects: `heap` maps an object id to the frame it holds, *)
(* the caller owns the input frame `df` and the outcome `ret` of the last  *)
(* call.  A call is one action; `call` records its arguments and the local *)
(* values of add_category_column (the filled column and the binned column) *)
(* as they were when the call ended.                                       *)
(***************************************************************************)
EXTENDS Integers, Sequences, FiniteSets, TLC

VARIABLES heap, df, saved, ret, call

vars == <<heap, df, saved, ret, call>>

(* ---------------- bounds of the model ---------------- *)

MaxRows == 2

MaxFrames == 4

(* ---------------- cells ---------------- *)

Num(x) == [t |-> "num", v |-> x, s |-> ""]

Str(x) == [t |-> "str", v |-> 0, s |-> x]

NaN == [t |-> "nan", v |-> 0, s |-> ""]

IsNa(c) == c.t = "nan"

Range(s) == {s[i] : i \in DOMAIN s}

(* ---------------- program constants ---------------- *)

ValueCol == "value"

FilledCol == "_val_filled"

CategoryCol == "category"

Sentinel == -9999

Bins == <<-10000, 30, 60, 1000000000>>

Labels == <<"low", "medium", "high">>

Missing == "missing"

(* ---------------- columns and frames ---------------- *)

Column(dtype, categories, values) ==
    [dtype |-> dtype, categories |-> categories, values |-> values]

\* One DataFrame: ordered column names, row labels, and one column per name.
Frame(columns, index, col) ==
    [columns |-> columns, index |-> index, col |-> col]

NRows(f) == Len(f.index)

(* ---------------- inputs ---------------- *)

\* The values a cell of the numeric column takes in this model: absent, below
\* the lowest edge, the lowest edge, the sentinel, the interior of each bin,
\* both interior edges, and a value above the highest edge.
InputValues ==
    {NaN} \cup {Num(x) : x \in {-20000, -10000, -9999, -50, 30, 45, 60, 75,
                                1000000, 2000000000}}

Thresholds == {30, 50, 60}

\* Shapes of the input table: the plain one, and the two whose columns already
\* use a name add_category_column writes to.
Layouts == {"plain", "has_category", "has_val_filled"}

InputFrame(n, vals, layout) ==
    LET ids   == Column("int64", <<>>, [i \in 1..n |-> Num(i)])
        value == Column("float64", <<>>, vals)
        extra == IF layout = "has_category"
                 THEN Column("object", <<>>, [i \in 1..n |-> Str("old")])
                 ELSE Column("float64", <<>>, [i \in 1..n |-> Num(7)])
        index == [i \in 1..n |-> i - 1]
    IN  IF layout = "plain"
        THEN Frame(<<"id", ValueCol>>, index,
                   [c \in {"id", ValueCol} |->
                       IF c = "id" THEN ids ELSE value])
        ELSE LET name == IF layout = "has_category" THEN CategoryCol
                         ELSE FilledCol
             IN  Frame(<<"id", ValueCol, name>>, index,
                       [c \in {"id", ValueCol, name} |->
                           IF c = "id" THEN ids
                           ELSE IF c = ValueCol THEN value ELSE extra])

InputFrames ==
    {InputFrame(Len(vals), vals, layout) :
        vals \in UNION {[1..k -> InputValues] : k \in 0..MaxRows},
        layout \in Layouts}

(* ---------------- pandas operations used by the program ---------------- *)

\* Lowest object id not in use.
NewId(h) ==
    CHOOSE i \in 1..MaxFrames :
        /\ i \notin DOMAIN h
        /\ \A j \in 1..(i - 1) : j \in DOMAIN h

\* A plain assignment (out = df): the same object, no copy.
DfCopyAlias(h, id) == [heap |-> h, id |-> id]

\* DataFrame.copy(): a new object holding the same columns and rows.
DfCopy(h, id) ==
    LET new == NewId(h)
    IN  [heap |-> (new :> h[id]) @@ h, id |-> new]

\* Series.fillna(x): every absent cell becomes x.
Fillna(c, x) ==
    [c EXCEPT !.values =
        [i \in DOMAIN c.values |->
            IF IsNa(c.values[i]) THEN Num(x) ELSE c.values[i]]]

\* frame[name] = column: replaces the column in place, or appends it.
SetItem(f, name, c) ==
    IF name \in Range(f.columns)
    THEN [f EXCEPT !.col[name] = c]
    ELSE Frame(Append(f.columns, name), f.index, (name :> c) @@ f.col)

\* searchsorted(side="left"): how many edges lie strictly below x.
SearchSortedLeft(bins, x) ==
    Cardinality({k \in DOMAIN bins : bins[k] < x})

\* searchsorted(side="right"): how many edges lie at or below x.
SearchSortedRight(bins, x) ==
    Cardinality({k \in DOMAIN bins : bins[k] <= x})

\* pd.cut with right=False: intervals closed on the left.
CutLeftClosed(c, bins, labels) ==
    LET id(x) == IF x = bins[1] THEN 1 ELSE SearchSortedRight(bins, x)
        cell(v) == IF IsNa(v) \/ id(v.v) = 0 \/ id(v.v) = Len(bins)
                   THEN NaN
                   ELSE Str(labels[id(v.v)])
    IN  Column("category", labels,
               [i \in DOMAIN c.values |-> cell(c.values[i])])

\* pd.cut(x, bins, labels, include_lowest=True) with the default right=True:
\* intervals are closed on the right, the first one also on the left; a value
\* outside every interval gets no category.
Cut(c, bins, labels) ==
    LET id(x) == IF x = bins[1] THEN 1 ELSE SearchSortedLeft(bins, x)
        cell(v) == IF IsNa(v) \/ id(v.v) = 0 \/ id(v.v) = Len(bins)
                   THEN NaN
                   ELSE Str(labels[id(v.v)])
    IN  Column("category", labels,
               [i \in DOMAIN c.values |-> cell(c.values[i])])

\* series == x: absent cells compare false.
EqScalar(c, x) ==
    [i \in DOMAIN c.values |-> c.values[i].t = "num" /\ c.values[i].v = x]

\* series > x: absent cells compare false.
GtScalar(c, x) ==
    [i \in DOMAIN c.values |-> c.values[i].t = "num" /\ c.values[i].v > x]

\* series >= x: absent cells compare false.
GeScalar(c, x) ==
    [i \in DOMAIN c.values |-> c.values[i].t = "num" /\ c.values[i].v >= x]

\* frame.loc[mask, name] = label.  An indexer of length zero is a null setter:
\* nothing is written and nothing is validated.  Otherwise a categorical column
\* accepts only its own categories and raises TypeError for any other label,
\* before the mask is looked at (so also when the mask selects no row).
LocSet(f, mask, name, label) ==
    LET c == f.col[name]
        written == [c EXCEPT !.values =
                       [i \in DOMAIN c.values |->
                           IF mask[i] THEN Str(label) ELSE c.values[i]]]
    IN  IF Len(mask) = 0
        THEN [ok |-> TRUE, frame |-> f, err |-> ""]
        ELSE IF c.dtype = "category" /\ label \notin Range(c.categories)
        THEN [ok |-> FALSE, frame |-> f, err |-> "TypeError"]
        ELSE [ok |-> TRUE, frame |-> [f EXCEPT !.col[name] = written],
              err |-> ""]

\* frame.drop(columns=name, inplace=True).
Drop(f, name) ==
    Frame(SelectSeq(f.columns, LAMBDA c : c # name), f.index,
          [c \in Range(f.columns) \ {name} |-> f.col[c]])

\* Positions of the true cells among rows 2..n (the first row is skipped).
NonzeroSkipFirst(mask) ==
    LET F[i \in 0..Len(mask)] ==
            IF i <= 1 THEN <<>>
            ELSE IF mask[i] THEN Append(F[i - 1], i) ELSE F[i - 1]
    IN  F[Len(mask)]

\* Positions of the true cells of a boolean mask, ascending.
Nonzero(mask) ==
    LET F[i \in 0..Len(mask)] ==
            IF i = 0 THEN <<>>
            ELSE IF mask[i] THEN Append(F[i - 1], i) ELSE F[i - 1]
    IN  F[Len(mask)]

\* frame[mask]: a new frame with the rows where mask is true, in order, keeping
\* their row labels and every column.
GetRows(f, mask) ==
    LET pos == Nonzero(mask)
    IN  Frame(f.columns,
              [k \in 1..Len(pos) |-> f.index[pos[k]]],
              [c \in Range(f.columns) |->
                  [f.col[c] EXCEPT !.values =
                      [k \in 1..Len(pos) |-> f.col[c].values[pos[k]]]]])

(* ---------------- the program's functions ---------------- *)

Ok(id) == [kind |-> "ok", id |-> id, err |-> ""]

Error(e) == [kind |-> "error", id |-> 0, err |-> e]

NoCall == [kind |-> "none", id |-> 0, err |-> ""]

\* add_category_column(df, "value"), run on the object `id` of heap h.
\* Yields the heap as the call leaves it, the outcome, and the two locals.
add_category_column(h, id) ==
    LET cp     == DfCopy(h, id)
        out    == cp.id
        f0     == cp.heap[out]
        filled == Fillna(f0.col[ValueCol], Sentinel)
        f1     == SetItem(f0, FilledCol, filled)
        binned == Cut(f1.col[FilledCol], Bins, Labels)
        f2     == SetItem(f1, CategoryCol, binned)
        set    == LocSet(f2, EqScalar(f2.col[FilledCol], Sentinel),
                         CategoryCol, Missing)
        f3     == Drop(set.frame, FilledCol)
    IN  IF set.ok
        THEN [heap |-> [cp.heap EXCEPT ![out] = f3], res |-> Ok(out),
              filled |-> filled.values, binned |-> binned.values]
        ELSE [heap |-> [cp.heap EXCEPT ![out] = f2], res |-> Error(set.err),
              filled |-> filled.values, binned |-> binned.values]

\* filter_by_min_value(df, min_value), run on the object `id` of heap h.
filter_by_min_value(h, id, min_value) ==
    LET mask == GeScalar(h[id].col[ValueCol], min_value)
        tmp  == NewId(h)
        h1   == (tmp :> GetRows(h[id], mask)) @@ h
        cp   == DfCopy(h1, tmp)
    IN  [heap |-> cp.heap, res |-> Ok(cp.id)]

\* Objects the caller can still reach once the call has returned; every other
\* object is reclaimed.
Collect(h, d, r) ==
    LET keep == {d} \cup (IF r.kind = "ok" THEN {r.id} ELSE {})
    IN  [i \in DOMAIN h \cap keep |-> h[i]]

(* ---------------- state machine ---------------- *)

NoArg == Frame(<<>>, <<>>, <<>>)

Init ==
    /\ df = 1
    /\ \E f \in InputFrames : heap = (1 :> f) /\ saved = f
    /\ ret = NoCall
    /\ call = [op |-> "none", src |-> "none", min_value |-> 0, arg |-> NoArg,
               from |-> "none", from_min |-> 0,
               filled |-> <<>>, binned |-> <<>>]

\* The object a call is made on: the caller's input, or the table the previous
\* call returned.
Source(src) == IF src = "df" THEN df ELSE ret.id

CanCall(src) ==
    /\ src = "ret" => ret.kind = "ok"
    /\ Cardinality(DOMAIN heap) + 2 <= MaxFrames

\* What produced the table a call is made on.
Origin(src) == IF src = "df" THEN "input" ELSE call.op

OriginMin(src) == IF src = "df" THEN 0 ELSE call.min_value

AddCategoryColumn(src) ==
    /\ CanCall(src)
    /\ LET r == add_category_column(heap, Source(src))
       IN  /\ heap' = Collect(r.heap, df, r.res)
           /\ ret' = r.res
           /\ call' = [op |-> "add_category_column", src |-> src,
                       min_value |-> 0, arg |-> heap[Source(src)],
                       from |-> Origin(src), from_min |-> OriginMin(src),
                       filled |-> r.filled, binned |-> r.binned]
    /\ UNCHANGED <<df, saved>>

FilterByMinValue(src, min_value) ==
    /\ CanCall(src)
    /\ LET r == filter_by_min_value(heap, Source(src), min_value)
       IN  /\ heap' = Collect(r.heap, df, r.res)
           /\ ret' = r.res
           /\ call' = [op |-> "filter_by_min_value", src |-> src,
                       min_value |-> min_value, arg |-> heap[Source(src)],
                       from |-> Origin(src), from_min |-> OriginMin(src),
                       filled |-> <<>>, binned |-> <<>>]
    /\ UNCHANGED <<df, saved>>

Next ==
    \/ \E src \in {"df", "ret"} : AddCategoryColumn(src)
    \/ \E src \in {"df", "ret"}, min_value \in Thresholds :
           FilterByMinValue(src, min_value)

Spec == Init /\ [][Next]_vars

(* ---------------- vocabulary of the properties ---------------- *)

IsAdd == call.op = "add_category_column"

IsFilter == call.op = "filter_by_min_value"

Returned == ret.kind = "ok"

RetFrame == heap[ret.id]

ArgValues == call.arg.col[ValueCol].values

OutLabels == RetFrame.col[CategoryCol].values

AllLabels == {"low", "medium", "high", "missing"}

\* Rows of the argument that filter_by_min_value has to keep.
Kept == {i \in 1..NRows(call.arg) :
            ArgValues[i].t = "num" /\ ArgValues[i].v >= call.min_value}

\* Position in the output of the kept row i.
Rank(i) == Cardinality({j \in Kept : j <= i})

(* ---------------- properties ---------------- *)

\* C1: every call of add_category_column on a numeric-or-absent column yields
\* a table in which every row of the input carries one label out of low,
\* medium, high, missing.
C1_Completeness ==
    IsAdd =>
        /\ Returned
        /\ NRows(RetFrame) = NRows(call.arg)
        /\ \A i \in 1..NRows(RetFrame) :
               OutLabels[i].t = "str" /\ OutLabels[i].s \in AllLabels

\* C2: the output of add_category_column has as many rows labelled missing as
\* the input has absent values.
C2_MissingCount ==
    IsAdd =>
        /\ Returned
        /\ Cardinality({i \in 1..NRows(RetFrame) : OutLabels[i] = Str(Missing)})
             = Cardinality({i \in 1..NRows(call.arg) : IsNa(ArgValues[i])})

\* C3: the output of filter_by_min_value is exactly the rows of the input whose
\* value is present and >= min_value, in their order, each once, with their
\* row label and all their columns.
C3_FilterCorrect ==
    IsFilter =>
        /\ Returned
        /\ RetFrame.columns = call.arg.columns
        /\ NRows(RetFrame) = Cardinality(Kept)
        /\ \A c \in Range(call.arg.columns) :
               /\ Len(RetFrame.col[c].values) = Cardinality(Kept)
               /\ RetFrame.col[c].dtype = call.arg.col[c].dtype
        /\ \A i \in Kept :
               /\ RetFrame.index[Rank(i)] = call.arg.index[i]
               /\ \A c \in Range(call.arg.columns) :
                      RetFrame.col[c].values[Rank(i)] = call.arg.col[c].values[i]

\* A filter call whose input held an absent value and a value equal to the
\* threshold, and kept only the latter.
C3_Witness ==
    /\ IsFilter
    /\ Returned
    /\ NRows(call.arg) = 2
    /\ \E i \in 1..2 : IsNa(ArgValues[i])
    /\ \E i \in 1..2 : ArgValues[i] = Num(call.min_value)
    /\ NRows(RetFrame) = 1

\* C4 as stated: the binning of add_category_column puts a present value equal
\* to an interior edge into the interval that has the edge as its lower bound
\* (30 is medium, 60 is high).
C4_LowerEdgeOriginal ==
    IsAdd =>
        \A i \in 1..NRows(call.arg) : \A k \in 2..(Len(Bins) - 1) :
            ArgValues[i] = Num(Bins[k]) => call.binned[i] = Str(Labels[k])

\* C4 amended: the binning of add_category_column puts a present value equal
\* to an interior edge into the interval that has the edge as its upper bound
\* (30 is low, 60 is medium).
C4_UpperEdge ==
    IsAdd =>
        \A i \in 1..NRows(call.arg) : \A k \in 2..(Len(Bins) - 1) :
            ArgValues[i] = Num(Bins[k]) => call.binned[i] = Str(Labels[k - 1])

\* A call that binned the values 30 and 60.
C4_Witness ==
    /\ IsAdd
    /\ NRows(call.arg) = 2
    /\ ArgValues[1] = Num(30) /\ call.binned[1] = Str("low")
    /\ ArgValues[2] = Num(60) /\ call.binned[2] = Str("medium")

\* C5: add_category_column labels an absent value missing, and a present value
\* v other than the sentinel low when -10000 <= v <= 30, medium when
\* 30 < v <= 60 and high when 60 < v.
C5_DefaultMapping ==
    IsAdd =>
        /\ Returned
        /\ NRows(RetFrame) = NRows(call.arg)
        /\ \A i \in 1..NRows(call.arg) :
               LET v == ArgValues[i]
               IN  /\ IsNa(v) => OutLabels[i] = Str("missing")
                   /\ (v.t = "num" /\ v.v # Sentinel) =>
                        /\ (-10000 <= v.v /\ v.v <= 30) => OutLabels[i] = Str("low")
                        /\ (30 < v.v /\ v.v <= 60) => OutLabels[i] = Str("medium")
                        /\ 60 < v.v => OutLabels[i] = Str("high")

\* C6: the table add_category_column returns has every column of the input
\* with its values, and exactly one column more.
C6_ColumnPreservation ==
    (IsAdd /\ Returned) =>
        /\ Len(RetFrame.columns) = Len(call.arg.columns) + 1
        /\ \A c \in Range(call.arg.columns) :
               /\ c \in Range(RetFrame.columns)
               /\ RetFrame.col[c] = call.arg.col[c]

\* C7: whatever was called and however it ended, the caller's input table is
\* what it was before, and a returned table is another object than the input.
C7_NonMutation ==
    /\ heap[df] = saved
    /\ Returned => ret.id # df

\* A call of add_category_column on a non-empty input that ended in an error.
C7_Witness ==
    /\ IsAdd
    /\ call.src = "df"
    /\ ret.kind = "error"
    /\ NRows(saved) > 0
    /\ call.arg = saved

\* C8: add_category_column returns a table for every numeric-or-absent column.
C8_NeverFails ==
    IsAdd => Returned

\* C9: filtering the output of filter_by_min_value again with the same
\* threshold returns an equal table.
C9_FilterIdempotent ==
    (IsFilter /\ call.src = "ret" /\ call.from = "filter_by_min_value"
        /\ call.from_min = call.min_value) =>
        Returned /\ RetFrame = call.arg

\* A second filter with the same threshold over a filtered table that has rows.
C9_Witness ==
    /\ IsFilter
    /\ call.src = "ret"
    /\ call.from = "filter_by_min_value"
    /\ call.from_min = call.min_value
    /\ NRows(call.arg) > 0
    /\ NRows(call.arg) < NRows(saved)
    /\ Returned

====
